---------------------------- MODULE Spec2Model ----------------------------
(***************************************************************************)
(* A model of the Scanner class of document_crop (src/index.ts): the       *)
(* constructor, the layout resolver, the crop-box state, the pointer       *)
(* interaction controller, the three crop forms and the teardown.          *)
(*                                                                         *)
(* Numbers.  Coordinates are display pixels.  Every input of the model is  *)
(* an integer and the percentages of initialCorners are multiples of 25,   *)
(* so that every JavaScript expression of the interaction code is exact in *)
(* binary64 and is modelled by integer arithmetic.  The one place where    *)
(* binary64 rounding changes a result, Math.floor((a / b) * c) of the      *)
(* layout resolver, is modelled bit-exactly by FloorOfQuotientTimes.       *)
(* window.devicePixelRatio is 1 or 2: the products and quotients by it     *)
(* are integers.                                                           *)
(***************************************************************************)
EXTENDS Integers, Sequences, FiniteSets, TLC

(***************************************************************************)
(* Bounds of the model.                                                    *)
(***************************************************************************)
\* the pointer visits the diagonal points (12 + 50 * k, 12 + 50 * k), k in -1 .. MaxGrid
MaxGrid == 4
\* the layout specification requests the sizes 100 * k, k in 1 .. MaxLayoutScale
MaxLayoutScale == 4

(***************************************************************************)
(* Program constants.                                                      *)
(***************************************************************************)
DefaultCornerRadius == 12
DefaultMinCropBoxWidth == 100
DefaultMinCropBoxHeight == 100
touchOffset == 30

\* an option that is not given (undefined)
Undefined == -1
\* JavaScript truthiness of an optional number: undefined and 0 are falsy
Truthy(v) == v # Undefined /\ v # 0

Pos(px, py) == [x |-> px, y |-> py]
Min(a, b) == IF a <= b THEN a ELSE b
Max(a, b) == IF a >= b THEN a ELSE b

(***************************************************************************)
(* binary64 arithmetic of the layout resolver.                             *)
(*                                                                         *)
(* FloorOfQuotientTimes(a, b, c) is Math.floor((a / b) * c) for positive   *)
(* integers a, b, c < 2^15, computed as IEEE-754 binary64 computes it:     *)
(* q = RN(a / b), p = RN(q * c), result floor(p) (RN: round to nearest,    *)
(* ties to even, 53-bit significand).  When b does not divide a * c the    *)
(* exact value is at least 1/b away from every integer, far more than the  *)
(* two roundings can move it, and the result is the exact floor.  When     *)
(* a * c / b is an integer N the result is N, unless q was rounded down    *)
(* and q * c falls below the midpoint of N and its predecessor: then       *)
(* p < N and the result is N - 1.                                          *)
(***************************************************************************)
Pow2(n) == 2 ^ n

RECURSIVE FloorLog2Up(_, _, _)
\* least-steps L >= 0 with a < 2^(L+1) * b, for a >= b
FloorLog2Up(a, b, L) == IF a >= 2 * b THEN FloorLog2Up(a, 2 * b, L + 1) ELSE L

RECURSIVE FloorLog2Down(_, _, _)
\* L < 0 with 2^L * b <= a, for a < b
FloorLog2Down(a, b, L) == IF a < b THEN FloorLog2Down(2 * a, b, L - 1) ELSE L

\* the binary exponent of a / b: 2^L <= a / b < 2^(L+1)
FloorLog2(a, b) == IF a >= b THEN FloorLog2Up(a, b, 0) ELSE FloorLog2Down(a, b, 0)

RECURSIVE LongDivision(_, _, _, _)
\* n more bits of the binary long division with remainder r (< b):
\* <<remainder, last quotient bit>>
LongDivision(r, bit, b, n) ==
    IF n = 0 THEN <<r, bit>>
    ELSE IF 2 * r >= b THEN LongDivision(2 * r - b, 1, b, n - 1)
                       ELSE LongDivision(2 * r, 0, b, n - 1)

\* RN(a / b) against a / b, from the remainder r and the last bit of the
\* 53-bit quotient: a / b - RN(a / b) = r / (b * 2^(52 - L)) when it is
\* rounded down, and the result is 0 when it is exact or rounded up
RoundedDown(ld, b) ==
    IF ld[1] = 0 \/ 2 * ld[1] > b \/ (2 * ld[1] = b /\ ld[2] = 1) THEN 0 ELSE ld[1]

RoundedDownBy(a, b, L) == RoundedDown(LongDivision(a % b, (a \div b) % 2, b, 52 - L), b)

\* whether q * c = N - c * r / (b * 2^(52 - L)) rounds below the integer N:
\* half the gap below N is 2^(E - 53 - k), so compare c * r with b * 2^sh
RoundsBelow(r, b, c, sh) ==
    /\ r # 0
    /\ IF sh >= 0 THEN c * r > b * Pow2(sh) ELSE c * r * Pow2(0 - sh) > b

\* sh for N in [2^E, 2^(E+1)) and a / b in [2^L, 2^(L+1))
GapShift(N, E, L) == E - (L + 1 + (IF N = Pow2(E) THEN 1 ELSE 0))

ExactQuotientTimes(a, b, c, N, L) ==
    IF RoundsBelow(RoundedDownBy(a, b, L), b, c, GapShift(N, FloorLog2(N, 1), L))
    THEN N - 1 ELSE N

FloorOfQuotientTimes(a, b, c) ==
    IF (a * c) % b # 0 THEN (a * c) \div b
    ELSE ExactQuotientTimes(a, b, c, (a * c) \div b, FloorLog2(a, b))

(***************************************************************************)
(* The constructor (src/index.ts 51-153).                                  *)
(***************************************************************************)
\* the six listeners the constructor registers: each is a fresh bound
\* function (handler.bind(this)), not the method itself
BoundListeners ==
    { [type |-> "touchstart", fn |-> "bound #handleTouchStart"],
      [type |-> "touchmove",  fn |-> "bound #handleTouchMove"],
      [type |-> "touchend",   fn |-> "bound #handleTouchEnd"],
      [type |-> "mousedown",  fn |-> "bound #handleMouseDown"],
      [type |-> "mousemove",  fn |-> "bound #handleMouseMove"],
      [type |-> "mouseup",    fn |-> "bound #handleTouchEnd"] }

\* the three checks at the top of the constructor
ConfigConflict(o) ==
    \/ (o.hasBackdropColor /\ o.hasCropBoxColor)
    \/ (Truthy(o.width) /\ Truthy(o.maxWidth))
    \/ (Truthy(o.height) /\ Truthy(o.maxHeight))

\* a variant that builds the DOM first and validates last
ConstructorValidatesLast(o, children) ==
    [ threw    |-> ConfigConflict(o),
      elements |-> {"img", "canvas", "relativePostionedDiv", "overlayCanvas"},
      listeners |-> BoundListeners,
      children |-> Append(children, "relativePostionedDiv") ]

\* the effects of new Scanner(o) on a parent with the given children
Constructor(o, children) ==
    IF ConfigConflict(o)
    THEN [ threw |-> TRUE, elements |-> {}, listeners |-> {}, children |-> children ]
    ELSE [ threw    |-> FALSE,
           elements |-> {"img", "canvas", "relativePostionedDiv", "overlayCanvas"},
           listeners |-> BoundListeners,
           children |-> Append(children, "relativePostionedDiv") ]

\* the private fields the constructor derives from the options
CornerRadius(o) == IF o.cornerRadius = Undefined THEN DefaultCornerRadius ELSE o.cornerRadius
MinCropBoxWidth(o) ==
    IF o.minCropBoxWidth = Undefined THEN DefaultMinCropBoxWidth ELSE o.minCropBoxWidth
MinCropBoxHeight(o) ==
    IF o.minCropBoxHeight = Undefined THEN DefaultMinCropBoxHeight ELSE o.minCropBoxHeight
FieldWidth(o) == IF Truthy(o.width) THEN o.width ELSE Undefined
FieldHeight(o) == IF Truthy(o.height) THEN o.height ELSE Undefined
FieldMaxWidth(o) == IF Truthy(o.maxWidth) THEN o.maxWidth ELSE Undefined
FieldMaxHeight(o) == IF Truthy(o.maxHeight) THEN o.maxHeight ELSE Undefined

(***************************************************************************)
(* The layout resolver (src/index.ts 155-261).                             *)
(***************************************************************************)
BorderPoints(cr, x, y) ==
    << Pos(cr, cr), Pos(x + cr, cr), Pos(x + cr, y + cr), Pos(cr, y + cr) >>

\* the display size <<x, y>> of the four cases
DisplaySize(o, nw, nh) ==
    LET w  == FieldWidth(o)
        h  == FieldHeight(o)
        mw == FieldMaxWidth(o)
        mh == FieldMaxHeight(o)
    IN  IF Truthy(w) /\ ~Truthy(h)
        THEN LET y == FloorOfQuotientTimes(w, nw, nh)
             IN  IF Truthy(mh) /\ y > mh
                 THEN << FloorOfQuotientTimes(mh, nh, nw), mh >>
                 ELSE << w, y >>
        ELSE IF Truthy(h) /\ ~Truthy(w)
        THEN LET x == FloorOfQuotientTimes(h, nh, nw)
             IN  IF Truthy(mw) /\ x > mw
                 THEN << mw, FloorOfQuotientTimes(mw, nw, nh) >>
                 ELSE << x, h >>
        ELSE IF Truthy(w) /\ Truthy(h)
        THEN << w, h >>
        ELSE << nw, nh >>

\* a layout that sizes the overlay after the backing store was scaled
initializeCanvasDimensionsScalesFirst(o, nw, nh, dpr) ==
    LET d  == DisplaySize(o, nw, nh)
        cr == CornerRadius(o)
    IN  [ canvasBorderPoints |-> BorderPoints(cr, d[1], d[2]),
          canvasStyle   |-> [width |-> d[1], height |-> d[2]],
          overlayCanvas |-> [width |-> d[1] * dpr + 2 * cr, height |-> d[2] * dpr + 2 * cr],
          canvas        |-> [width |-> d[1] * dpr, height |-> d[2] * dpr] ]

\* #initializeCanvasDimensions: the surfaces after it ran, dpr = devicePixelRatio
initializeCanvasDimensions(o, nw, nh, dpr) ==
    LET d  == DisplaySize(o, nw, nh)
        cr == CornerRadius(o)
    IN  [ canvasBorderPoints |-> BorderPoints(cr, d[1], d[2]),
          canvasStyle   |-> [width |-> d[1], height |-> d[2]],
          overlayCanvas |-> [width |-> d[1] + 2 * cr, height |-> d[2] + 2 * cr],
          canvas        |-> [width |-> d[1] * dpr, height |-> d[2] * dpr] ]

(***************************************************************************)
(* Corner initialisation (src/index.ts 263-290).  cv is the backing-store  *)
(* canvas.  The inputs of the model make (pct / 100) * cv.width / dpr an   *)
(* integer (percentages are multiples of 25, display sizes multiples of 4  *)
(* where initialCorners is given), so \div is exact here.                  *)
(***************************************************************************)
initializeCorners(initialCorners, cv, dpr, cr) ==
    IF initialCorners # <<>>
    THEN [ i \in 1..Len(initialCorners) |->
             Pos(((initialCorners[i].x * cv.width) \div 100) \div dpr + cr,
                 ((initialCorners[i].y * cv.height) \div 100) \div dpr + cr) ]
    ELSE << Pos(cr, cr),
            Pos(cv.width \div dpr + cr, cr),
            Pos(cv.width \div dpr + cr, cv.height \div dpr + cr),
            Pos(cr, cv.height \div dpr + cr) >>


(***************************************************************************)
(* Hit-testing (src/index.ts 354-388).                                     *)
(***************************************************************************)
\* twice the signed area of (a, b, q): > 0 when q is left of a -> b
IsLeft(a, b, q) == (b.x - a.x) * (q.y - a.y) - (q.x - a.x) * (b.y - a.y)

OnSegment(q, a, b) ==
    /\ IsLeft(a, b, q) = 0
    /\ q.x >= Min(a.x, b.x) /\ q.x <= Max(a.x, b.x)
    /\ q.y >= Min(a.y, b.y) /\ q.y <= Max(a.y, b.y)

\* the contribution of edge a -> b to the winding number about q
WindingOfEdge(a, b, q) ==
    IF a.y <= q.y
    THEN IF b.y > q.y /\ IsLeft(a, b, q) > 0 THEN 1 ELSE 0
    ELSE IF b.y <= q.y /\ IsLeft(a, b, q) < 0 THEN -1 ELSE 0

\* CanvasRenderingContext2D.isPointInPath of the closed path through the
\* four points of path: the nonzero winding rule, points on the path inside
isPointInPath(path, q) ==
    LET nxt(i) == path[(i % 4) + 1]
    IN  \/ \E i \in 1..4 : OnSegment(q, path[i], nxt(i))
        \/ WindingOfEdge(path[1], path[2], q) + WindingOfEdge(path[2], path[3], q)
             + WindingOfEdge(path[3], path[4], q) + WindingOfEdge(path[4], path[1], q) # 0

\* #isTouchInsideCropBox: the polygon inset by touchOffset
isTouchInsideCropBox(cs, touchX, touchY) ==
    isPointInPath(<< Pos(cs[1].x + touchOffset, cs[1].y + touchOffset),
                     Pos(cs[2].x - touchOffset, cs[2].y + touchOffset),
                     Pos(cs[3].x - touchOffset, cs[3].y - touchOffset),
                     Pos(cs[4].x + touchOffset, cs[4].y - touchOffset) >>,
                  Pos(touchX, touchY))

\* a corner test whose loop stops one corner early
getSelectedCornerIndexSkipsLast(cs, cr, mouseX, mouseY) ==
    LET hit == { i \in 0..(Len(cs) - 2) :
                   (mouseX - cs[i + 1].x) ^ 2 + (mouseY - cs[i + 1].y) ^ 2 <= cr ^ 2 }
    IN  IF hit = {} THEN -1 ELSE CHOOSE i \in hit : \A j \in hit : i <= j

\* #getSelectedCornerIndex: the first corner (index from 0) within
\* cornerRadius of the pointer, -1 when there is none
getSelectedCornerIndex(cs, cr, mouseX, mouseY) ==
    LET hit == { i \in 0..(Len(cs) - 1) :
                   (mouseX - cs[i + 1].x) ^ 2 + (mouseY - cs[i + 1].y) ^ 2 <= cr ^ 2 }
    IN  IF hit = {} THEN -1 ELSE CHOOSE i \in hit : \A j \in hit : i <= j

(***************************************************************************)
(* Constraints (src/index.ts 417-484).                                     *)
(***************************************************************************)
isPointOnBorder(point, borderPoints) ==
    \E i \in 1..Len(borderPoints) :
        LET borderPoint1 == borderPoints[i]
            borderPoint2 == borderPoints[(i % Len(borderPoints)) + 1]
        IN  /\ (point.y - borderPoint1.y) * (borderPoint2.x - borderPoint1.x)
                 = (borderPoint2.y - borderPoint1.y) * (point.x - borderPoint1.x)
            /\ point.x >= Min(borderPoint1.x, borderPoint2.x)
            /\ point.x <= Max(borderPoint1.x, borderPoint2.x)
            /\ point.y >= Min(borderPoint1.y, borderPoint2.y)
            /\ point.y <= Max(borderPoint1.y, borderPoint2.y)

\* a minimum-size check of the top width and the left height only
cropBoxIsTooSmallTopLeft(cs, minW, minH) ==
    \/ cs[2].x - cs[1].x < minW
    \/ cs[4].y - cs[1].y < minH

cropBoxIsTooSmall(cs, minW, minH) ==
    \/ cs[2].x - cs[1].x < minW
    \/ cs[3].x - cs[4].x < minW
    \/ cs[4].y - cs[1].y < minH
    \/ cs[3].y - cs[2].y < minH

\* a clamp into the whole overlay, the radius forgotten
ClampToOverlay(px, py, ov, cr) ==
    Pos(Max(0, Min(px, ov.width)), Max(0, Min(py, ov.height)))

\* the clamp of #moveCropBox and #afterTouchMove: into the overlay less the radius
Clamp(px, py, ov, cr) ==
    Pos(Max(cr, Min(px, ov.width - cr)), Max(cr, Min(py, ov.height - cr)))

\* a whole-box move that holds back only the corners that reach the border
moveCropBoxPerCorner(cs, prevTouch, touchX, touchY, ov, cr, borderPoints) ==
    LET dx == touchX - prevTouch.x
        dy == touchY - prevTouch.y
        translatedCorners == [ i \in 1..Len(cs) |-> Clamp(cs[i].x + dx, cs[i].y + dy, ov, cr) ]
    IN  [ i \in 1..Len(cs) |->
            IF isPointOnBorder(translatedCorners[i], borderPoints)
            THEN cs[i] ELSE translatedCorners[i] ]

\* a whole-box move that clamps the corners and never rejects
moveCropBoxClampsOnly(cs, prevTouch, touchX, touchY, ov, cr, borderPoints) ==
    [ i \in 1..Len(cs) |->
        Clamp(cs[i].x + (touchX - prevTouch.x), cs[i].y + (touchY - prevTouch.y), ov, cr) ]

\* #moveCropBox: the corners after a whole-box move of the pointer to (touchX, touchY)
moveCropBox(cs, prevTouch, touchX, touchY, ov, cr, borderPoints) ==
    LET dx == touchX - prevTouch.x
        dy == touchY - prevTouch.y
        translatedCorners == [ i \in 1..Len(cs) |-> Clamp(cs[i].x + dx, cs[i].y + dy, ov, cr) ]
        movable == \A i \in 1..Len(cs) : ~isPointOnBorder(translatedCorners[i], borderPoints)
    IN  IF movable THEN translatedCorners ELSE cs

\* a corner drag that runs the minimum-size check on the current box
dragCornerChecksCurrentBox(cs, sel, touchX, touchY, ov, cr, minW, minH) ==
    IF cropBoxIsTooSmall(cs, minW, minH)
    THEN cs
    ELSE [ cs EXCEPT ![sel + 1] = Clamp(touchX, touchY, ov, cr) ]

\* a corner drag that stores the pointer position as it came
dragCornerStoresPointer(cs, sel, touchX, touchY, ov, cr, minW, minH) ==
    LET points == [ i \in 1..Len(cs) |-> IF i = sel + 1 THEN Pos(touchX, touchY) ELSE cs[i] ]
    IN  IF cropBoxIsTooSmall(points, minW, minH)
        THEN cs
        ELSE points

\* the corner branch of #afterTouchMove: the corners after a move of the
\* pointer to (touchX, touchY) with corner sel (index from 0) selected
dragCorner(cs, sel, touchX, touchY, ov, cr, minW, minH) ==
    LET points == [ i \in 1..Len(cs) |-> IF i = sel + 1 THEN Pos(touchX, touchY) ELSE cs[i] ]
    IN  IF cropBoxIsTooSmall(points, minW, minH)
        THEN cs
        ELSE [ cs EXCEPT ![sel + 1] = Clamp(touchX, touchY, ov, cr) ]


(***************************************************************************)
(* Inputs of the model.                                                    *)
(***************************************************************************)
Options(w, h, mw, mh, minW, minH, ic, backdrop, cropBox) ==
    [ width |-> w, height |-> h, maxWidth |-> mw, maxHeight |-> mh,
      cornerRadius |-> Undefined,
      minCropBoxWidth |-> minW, minCropBoxHeight |-> minH,
      initialCorners |-> ic,
      hasBackdropColor |-> backdrop, hasCropBoxColor |-> cropBox ]

\* no option but parent
OptDefault ==
    Options(Undefined, Undefined, Undefined, Undefined, Undefined, Undefined, <<>>, FALSE, FALSE)
\* width 200 and the centred box of the README as the initial box
OptCentred ==
    Options(200, Undefined, Undefined, Undefined, Undefined, Undefined,
            << Pos(25, 25), Pos(75, 25), Pos(75, 75), Pos(25, 75) >>, FALSE, TRUE)
\* initialCorners beyond 100 percent
OptBeyond ==
    Options(100, 100, Undefined, Undefined, 50, 50,
            << Pos(0, 0), Pos(150, 0), Pos(150, 100), Pos(0, 100) >>, TRUE, FALSE)
\* the three conflicts
OptWidthAndMaxWidth ==
    Options(100, Undefined, 200, Undefined, Undefined, Undefined, <<>>, FALSE, FALSE)
OptHeightAndMaxHeight ==
    Options(Undefined, 100, Undefined, 200, Undefined, Undefined, <<>>, FALSE, FALSE)
OptBothColors ==
    Options(Undefined, Undefined, Undefined, Undefined, Undefined, Undefined, <<>>, TRUE, TRUE)

ScannerOptions ==
    { OptDefault, OptCentred, OptBeyond,
      OptWidthAndMaxWidth, OptHeightAndMaxHeight, OptBothColors }

Image(nw, nh) == [ok |-> TRUE, naturalWidth |-> nw, naturalHeight |-> nh]
BrokenImage == [ok |-> FALSE, naturalWidth |-> 0, naturalHeight |-> 0]
Images == { Image(100, 100), Image(100, 50), BrokenImage }

DevicePixelRatios == {1, 2}

\* pointer positions relative to the padded canvas: the diagonal, the other
\* two handles of the centred box of a 200 x 200 canvas, and a point 25 to
\* the right of the centre
PointerPositions ==
    { Pos(12 + 50 * k, 12 + 50 * k) : k \in -1..MaxGrid }
      \cup { Pos(162, 62), Pos(62, 162), Pos(137, 112) }

(***************************************************************************)
(* State.                                                                  *)
(***************************************************************************)
VARIABLES
    scanner,              \* "none", "failed" (the constructor threw), "live" or
                          \* "destroyed" (destroy() was called)
    options,              \* the options the constructor was given
    elements,             \* the DOM elements created so far
    listeners,            \* the listeners registered on #overlayCanvas
    parentChildren,       \* the children of #parent, in order
    devicePixelRatio,     \* window.devicePixelRatio
    loading,              \* << >> or << the image #img is fetching >>
    img,                  \* #img: naturalWidth, naturalHeight as the last onload read them
    canvas,               \* #canvas: width, height (the backing store)
    canvasStyle,          \* #canvas.style: width, height (the display size)
    overlayCanvas,        \* #overlayCanvas: width, height
    canvasBorderPoints,   \* #canvasBorderPoints, << >> while undefined
    corners,              \* #corners, << >> while undefined
    move,                 \* #move: active, prevTouch
    selectedCornerIndex,  \* #selectedCornerIndex
    overlayDrawn,         \* the corners #drawCropBox drew last, << >> before the first
    returned,             \* how the last step ended: Void, a return value or an exception
    promises              \* the promises getBlob / getFile returned, in call order

vars == << scanner, options, elements, listeners, parentChildren, devicePixelRatio,
           loading, img, canvas, canvasStyle, overlayCanvas, canvasBorderPoints,
           corners, overlayDrawn, move, selectedCornerIndex, returned, promises >>

domVars == << elements, listeners, parentChildren >>
layoutVars == << img, canvas, canvasStyle, overlayCanvas, canvasBorderPoints >>

\* a canvas element as created: 300 x 150
NewCanvas == [width |-> 300, height |-> 150]

\* the ways a step ends: with nothing to report, with a value returned to the
\* caller, with an exception thrown to the caller, or with an exception thrown
\* inside an event callback, where no caller of the instance is on the stack
Void == [kind |-> "void"]
Returned(v) == [kind |-> "returned", value |-> v]
Threw(e) == [kind |-> "threw", error |-> e]
Uncaught(e) == [kind |-> "uncaught", error |-> e]

\* a step that ends with nothing to report and touches no promise
NoCall == returned' = Void /\ UNCHANGED promises

Init ==
    /\ scanner = "none"
    /\ options = OptDefault
    /\ elements = {}
    /\ listeners = {}
    /\ parentChildren = << "sibling" >>
    /\ devicePixelRatio \in DevicePixelRatios
    /\ loading = << >>
    /\ img = [naturalWidth |-> 0, naturalHeight |-> 0]
    /\ canvas = NewCanvas
    /\ canvasStyle = [width |-> 0, height |-> 0]
    /\ overlayCanvas = NewCanvas
    /\ canvasBorderPoints = << >>
    /\ corners = << >>
    /\ overlayDrawn = << >>
    /\ move = [active |-> FALSE, prevTouch |-> Pos(0, 0)]
    /\ selectedCornerIndex = -1
    /\ returned = Void
    /\ promises = << >>

(***************************************************************************)
(* Operations.                                                             *)
(***************************************************************************)
\* the instance exists: the constructor returned (destroy() does not end it)
Constructed == scanner \in {"live", "destroyed"}

\* new Scanner(o)
Construct(o) ==
    /\ scanner = "none"
    /\ LET c == Constructor(o, parentChildren)
       IN  /\ scanner' = IF c.threw THEN "failed" ELSE "live"
           /\ elements' = c.elements
           /\ listeners' = c.listeners
           /\ parentChildren' = c.children
           /\ returned' = IF c.threw THEN Threw("Error") ELSE Void
    /\ options' = o
    /\ UNCHANGED promises
    /\ UNCHANGED << devicePixelRatio, loading, layoutVars, corners, overlayDrawn, move,
                    selectedCornerIndex >>

\* loadImg(imgSrc): #img starts fetching im; a fetch in progress is replaced
loadImg(im) ==
    /\ Constructed
    /\ loading' = << im >>
    /\ NoCall
    /\ UNCHANGED << scanner, options, domVars, devicePixelRatio, layoutVars,
                    corners, overlayDrawn, move, selectedCornerIndex >>

\* an onload callback that initialises the corners on the first load only
OnloadResultKeepsCorners(o, im, dpr) ==
    LET lay == initializeCanvasDimensions(o, im.naturalWidth, im.naturalHeight, dpr)
    IN  [ lay |-> lay,
          corners |-> IF corners # << >> THEN corners
                      ELSE initializeCorners(o.initialCorners, lay.canvas, dpr, CornerRadius(o)),
          move |-> move,
          selectedCornerIndex |-> selectedCornerIndex ]

\* what the onload callback assigns
OnloadResult(o, im, dpr) ==
    LET lay == initializeCanvasDimensions(o, im.naturalWidth, im.naturalHeight, dpr)
    IN  [ lay |-> lay,
          corners |-> initializeCorners(o.initialCorners, lay.canvas, dpr, CornerRadius(o)),
          move |-> move,
          selectedCornerIndex |-> selectedCornerIndex ]

\* #img.onload
ImgOnload ==
    /\ Constructed
    /\ loading # << >>
    /\ loading[1].ok
    /\ LET im == loading[1]
           r  == OnloadResult(options, im, devicePixelRatio)
       IN  /\ img' = [naturalWidth |-> im.naturalWidth, naturalHeight |-> im.naturalHeight]
           /\ canvas' = r.lay.canvas
           /\ canvasStyle' = r.lay.canvasStyle
           /\ overlayCanvas' = r.lay.overlayCanvas
           /\ canvasBorderPoints' = r.lay.canvasBorderPoints
           /\ corners' = r.corners
           /\ overlayDrawn' = r.corners
           /\ move' = r.move
           /\ selectedCornerIndex' = r.selectedCornerIndex
    /\ loading' = << >>
    /\ NoCall
    /\ UNCHANGED << scanner, options, domVars, devicePixelRatio >>

\* #img.onerror: the callback throws; no field of the instance changes
\* (img, the natural size the last onload read, is read by onload alone)
ImgOnerror ==
    /\ Constructed
    /\ loading # << >>
    /\ ~loading[1].ok
    /\ loading' = << >>
    /\ returned' = Uncaught("Error loading image.")
    /\ UNCHANGED promises
    /\ UNCHANGED << scanner, options, domVars, devicePixelRatio, layoutVars, corners, overlayDrawn,
                    move, selectedCornerIndex >>

Registered(type) == \E l \in listeners : l.type = type

\* a pointer-down that runs the corner test in the box branch as well
afterTouchStartAlwaysTestsCorners(cs, mv, sel, cr, touchX, touchY) ==
    IF isTouchInsideCropBox(cs, touchX, touchY) /\ mv.active = FALSE
    THEN [ move |-> [active |-> TRUE, prevTouch |-> Pos(touchX, touchY)],
           selectedCornerIndex |-> getSelectedCornerIndex(cs, cr, touchX, touchY) ]
    ELSE [ move |-> mv,
           selectedCornerIndex |-> getSelectedCornerIndex(cs, cr, touchX, touchY) ]

\* #afterTouchStart: the interaction state after a pointer-down
afterTouchStart(cs, mv, sel, cr, touchX, touchY) ==
    IF isTouchInsideCropBox(cs, touchX, touchY) /\ mv.active = FALSE
    THEN [ move |-> [active |-> TRUE, prevTouch |-> Pos(touchX, touchY)],
           selectedCornerIndex |-> sel ]
    ELSE [ move |-> mv,
           selectedCornerIndex |-> getSelectedCornerIndex(cs, cr, touchX, touchY) ]

\* mousedown / touchstart at (touchX, touchY); before the first load
\* #corners is undefined and the handler throws on reading #corners[0]
PointerDown(touchX, touchY) ==
    /\ Registered("mousedown") \/ Registered("touchstart")
    /\ IF corners = << >>
       THEN /\ UNCHANGED << move, selectedCornerIndex >>
            /\ returned' = Uncaught("TypeError")
       ELSE LET r == afterTouchStart(corners, move, selectedCornerIndex,
                                     CornerRadius(options), touchX, touchY)
            IN  /\ move' = r.move
                /\ selectedCornerIndex' = r.selectedCornerIndex
                /\ returned' = Void
    /\ UNCHANGED promises
    /\ UNCHANGED << scanner, options, domVars, devicePixelRatio, loading, layoutVars,
                    corners, overlayDrawn >>

\* whether the corner branch of #afterTouchMove gets past the minimum-size
\* check to the assignments and to #drawCropBox()
cornerDragCommits(cs, sel, touchX, touchY, o) ==
    ~cropBoxIsTooSmall([ i \in 1..Len(cs) |-> IF i = sel + 1 THEN Pos(touchX, touchY) ELSE cs[i] ],
                       MinCropBoxWidth(o), MinCropBoxHeight(o))

\* a pointer-move that redraws after a whole-box move only
afterTouchMoveRedrawsBoxMoveOnly(cs, mv, sel, o, ov, borderPoints, touchX, touchY) ==
    IF mv.active = TRUE
    THEN [ corners |-> moveCropBox(cs, mv.prevTouch, touchX, touchY, ov,
                                   CornerRadius(o), borderPoints),
           move |-> [mv EXCEPT !.prevTouch = Pos(touchX, touchY)],
           redraw |-> TRUE ]
    ELSE IF sel # -1
    THEN [ corners |-> dragCorner(cs, sel, touchX, touchY, ov, CornerRadius(o),
                                  MinCropBoxWidth(o), MinCropBoxHeight(o)),
           move |-> mv,
           redraw |-> FALSE ]
    ELSE [ corners |-> cs, move |-> mv, redraw |-> FALSE ]

\* a pointer-move that records the pointer position only when the whole-box
\* move was committed
afterTouchMoveRecordsCommitted(cs, mv, sel, o, ov, borderPoints, touchX, touchY) ==
    IF mv.active = TRUE
    THEN LET moved == moveCropBox(cs, mv.prevTouch, touchX, touchY, ov,
                                  CornerRadius(o), borderPoints)
         IN  [ corners |-> moved,
               move |-> IF moved # cs THEN [mv EXCEPT !.prevTouch = Pos(touchX, touchY)]
                                      ELSE mv,
               redraw |-> TRUE ]
    ELSE IF sel # -1
    THEN [ corners |-> dragCorner(cs, sel, touchX, touchY, ov, CornerRadius(o),
                                  MinCropBoxWidth(o), MinCropBoxHeight(o)),
           move |-> mv,
           redraw |-> cornerDragCommits(cs, sel, touchX, touchY, o) ]
    ELSE [ corners |-> cs, move |-> mv, redraw |-> FALSE ]

\* a pointer-move that translates the box whether or not a drag is active
afterTouchMoveIgnoresMode(cs, mv, sel, o, ov, borderPoints, touchX, touchY) ==
    [ corners |-> moveCropBox(cs, mv.prevTouch, touchX, touchY, ov,
                              CornerRadius(o), borderPoints),
      move |-> [mv EXCEPT !.prevTouch = Pos(touchX, touchY)],
      redraw |-> TRUE ]

\* #afterTouchMove: corners and #move after a pointer-move, and whether
\* #drawCropBox() ran
afterTouchMove(cs, mv, sel, o, ov, borderPoints, touchX, touchY) ==
    IF mv.active = TRUE
    THEN [ corners |-> moveCropBox(cs, mv.prevTouch, touchX, touchY, ov,
                                   CornerRadius(o), borderPoints),
           move |-> [mv EXCEPT !.prevTouch = Pos(touchX, touchY)],
           redraw |-> TRUE ]
    ELSE IF sel # -1
    THEN [ corners |-> dragCorner(cs, sel, touchX, touchY, ov, CornerRadius(o),
                                  MinCropBoxWidth(o), MinCropBoxHeight(o)),
           move |-> mv,
           redraw |-> cornerDragCommits(cs, sel, touchX, touchY, o) ]
    ELSE [ corners |-> cs, move |-> mv, redraw |-> FALSE ]

\* mousemove / touchmove to (touchX, touchY)
PointerMove(touchX, touchY) ==
    /\ Registered("mousemove") \/ Registered("touchmove")
    /\ IF corners = << >>
       THEN UNCHANGED << corners, overlayDrawn, move >>
       ELSE LET r == afterTouchMove(corners, move, selectedCornerIndex, options,
                                    overlayCanvas, canvasBorderPoints, touchX, touchY)
            IN  /\ corners' = r.corners
                /\ overlayDrawn' = IF r.redraw THEN r.corners ELSE overlayDrawn
                /\ move' = r.move
    /\ NoCall
    /\ UNCHANGED << scanner, options, domVars, devicePixelRatio, loading, layoutVars,
                    selectedCornerIndex >>

\* a pointer-up that ends the box drag and keeps the selected corner
handleTouchEndKeepsCorner(mv) ==
    [ move |-> [mv EXCEPT !.active = FALSE], selectedCornerIndex |-> selectedCornerIndex ]

\* #handleTouchEnd: the interaction state after a pointer-up
handleTouchEnd(mv) ==
    [ move |-> [mv EXCEPT !.active = FALSE], selectedCornerIndex |-> -1 ]

\* mouseup / touchend
PointerUp ==
    /\ Registered("mouseup") \/ Registered("touchend")
    /\ LET r == handleTouchEnd(move)
       IN  /\ move' = r.move
           /\ selectedCornerIndex' = r.selectedCornerIndex
    /\ NoCall
    /\ UNCHANGED << scanner, options, domVars, devicePixelRatio, loading, layoutVars,
                    corners, overlayDrawn >>

(***************************************************************************)
(* Teardown (src/index.ts 663-674).                                        *)
(***************************************************************************)
\* the listeners destroy() names: the methods themselves, which are not the
\* functions bind() returned to addEventListener
UnboundListeners ==
    { [type |-> "touchstart", fn |-> "#handleTouchStart"],
      [type |-> "touchmove",  fn |-> "#handleTouchMove"],
      [type |-> "touchend",   fn |-> "#handleTouchEnd"],
      [type |-> "mousedown",  fn |-> "#handleMouseDown"],
      [type |-> "mousemove",  fn |-> "#handleMouseMove"],
      [type |-> "mouseup",    fn |-> "#handleTouchEnd"] }

\* Node.removeChild: the children without child
RemoveChild(children, child) == SelectSeq(children, LAMBDA c : c # child)

IsChild(children, child) == \E i \in 1..Len(children) : children[i] = child

\* a teardown that empties the parent
destroyClearsParent(ls, children) ==
    [ listeners |-> ls \ UnboundListeners,
      children  |-> << >>,
      threw     |-> ~IsChild(children, "relativePostionedDiv") ]

\* destroy(): removeEventListener removes the listener of the same type and
\* the same function, if there is one; removeChild throws when the node is
\* not a child
destroy(ls, children) ==
    [ listeners |-> ls \ UnboundListeners,
      children  |-> RemoveChild(children, "relativePostionedDiv"),
      threw     |-> ~IsChild(children, "relativePostionedDiv") ]

Destroy ==
    /\ Constructed
    /\ LET d == destroy(listeners, parentChildren)
       IN  /\ listeners' = d.listeners
           /\ parentChildren' = d.children
           /\ returned' = IF d.threw THEN Threw("NotFoundError") ELSE Void
    /\ scanner' = "destroyed"
    /\ UNCHANGED << options, elements, devicePixelRatio, loading, layoutVars, corners, overlayDrawn,
                    move, selectedCornerIndex, promises >>

\* the page appends an element of its own to the parent
AppendSibling ==
    /\ ~IsChild(parentChildren, "later sibling")
    /\ parentChildren' = Append(parentChildren, "later sibling")
    /\ NoCall
    /\ UNCHANGED << scanner, options, elements, listeners, devicePixelRatio, loading,
                    layoutVars, corners, overlayDrawn, move, selectedCornerIndex >>

(***************************************************************************)
(* Cropping (src/index.ts 539-657).                                        *)
(***************************************************************************)
\* (p.x - q.x) ** 2 + (p.y - q.y) ** 2
SideSquared(p, q) == (p.x - q.x) ^ 2 + (p.y - q.y) ^ 2

\* dstTri, the corners [0, 0, dsize.width, 0, dsize.width, dsize.height, 0,
\* dsize.height] the source points are paired with, kept by the squares of
\* their coordinates as dsize is
DestinationSquared(widthSquared, heightSquared) ==
    << Pos(0, 0), Pos(widthSquared, 0),
       Pos(widthSquared, heightSquared), Pos(0, heightSquared) >>

\* source points taken from the padded overlay coordinates, the radius not
\* subtracted
TransformArgumentsUnpadded(points, cvs, cr, dpr) ==
    [ dsizeSquared |->
        [ width  |-> Max(SideSquared(points[1], points[2]),
                         SideSquared(points[3], points[4])) * dpr ^ 2,
          height |-> Max(SideSquared(points[2], points[3]),
                         SideSquared(points[4], points[1])) * dpr ^ 2 ],
      srcTri |->
        [ i \in 1..4 |->
            Pos((points[i].x * cvs.width) \div (cvs.width \div dpr),
                (points[i].y * cvs.height) \div (cvs.height \div dpr)) ],
      dstTriSquared |->
        DestinationSquared(Max(SideSquared(points[1], points[2]),
                               SideSquared(points[3], points[4])) * dpr ^ 2,
                           Max(SideSquared(points[2], points[3]),
                               SideSquared(points[4], points[1])) * dpr ^ 2) ]

\* what #applyPerspectiveTransform hands to the imaging engine.  dsize is
\* kept by the squares of its width and height, Math.max(Math.sqrt(s),
\* Math.sqrt(t)) * dpr being the root of Max(s, t) * dpr ^ 2.  A source
\* coordinate ((p - r) / (canvas.width / dpr)) * canvas.width is within two
\* binary64 roundings of the integer (p - r) * dpr and CV_32FC2 stores it as
\* the nearest binary32, that integer.
TransformArguments(points, cvs, cr, dpr) ==
    [ dsizeSquared |->
        [ width  |-> Max(SideSquared(points[1], points[2]),
                         SideSquared(points[3], points[4])) * dpr ^ 2,
          height |-> Max(SideSquared(points[2], points[3]),
                         SideSquared(points[4], points[1])) * dpr ^ 2 ],
      srcTri |->
        [ i \in 1..4 |->
            Pos(((points[i].x - cr) * cvs.width) \div (cvs.width \div dpr),
                ((points[i].y - cr) * cvs.height) \div (cvs.height \div dpr)) ],
      dstTriSquared |->
        DestinationSquared(Max(SideSquared(points[1], points[2]),
                               SideSquared(points[3], points[4])) * dpr ^ 2,
                           Max(SideSquared(points[2], points[3]),
                               SideSquared(points[4], points[1])) * dpr ^ 2) ]

\* three of the four source points on one line, or an empty target: the
\* correspondence has no perspective transform
NoTransform(args) ==
    \/ \E i, j, k \in 1..4 :
         /\ i < j /\ j < k
         /\ IsLeft(args.srcTri[i], args.srcTri[j], args.srcTri[k]) = 0
    \/ args.dsizeSquared.width = 0
    \/ args.dsizeSquared.height = 0

\* cv.getPerspectiveTransform and cv.warpPerspective are code of the imaging
\* engine, not of this repository: on a correspondence that has no transform
\* they either throw or deliver some image, and the caller checks nothing
EngineOutcomes(points, cvs, cr, dpr) ==
    IF points # << >> /\ NoTransform(TransformArguments(points, cvs, cr, dpr))
    THEN {"delivers", "throws"}
    ELSE {"delivers"}

\* a transform whose target size is left in display pixels
applyPerspectiveTransformUnscaled(points, cvs, cr, dpr, engine) ==
    IF points = << >>
    THEN Threw("TypeError")
    ELSE IF engine = "throws"
    THEN Threw("cv exception")
    ELSE Returned(TransformArguments(points, cvs, cr, 1))

\* #applyPerspectiveTransform(points): reading points[0] of the undefined
\* #corners throws a TypeError; otherwise the canvas the engine's image is
\* shown on, kept by the arguments that went into it
applyPerspectiveTransform(points, cvs, cr, dpr, engine) ==
    IF points = << >>
    THEN Threw("TypeError")
    ELSE IF engine = "throws"
    THEN Threw("cv exception")
    ELSE Returned(TransformArguments(points, cvs, cr, dpr))

\* crop(): the data URL of the transformed canvas, or the exception
crop(points, cvs, cr, dpr, engine) ==
    LET croppedCanvas == applyPerspectiveTransform(points, cvs, cr, dpr, engine)
    IN  IF croppedCanvas.kind = "threw"
        THEN croppedCanvas
        ELSE Returned([type |-> "image/png", from |-> croppedCanvas.value])

Crop ==
    /\ Constructed
    /\ \E engine \in EngineOutcomes(corners, canvas, CornerRadius(options), devicePixelRatio) :
         returned' = crop(corners, canvas, CornerRadius(options), devicePixelRatio, engine)
    /\ UNCHANGED << scanner, options, domVars, devicePixelRatio, loading, layoutVars,
                    corners, overlayDrawn, move, selectedCornerIndex, promises >>

\* the most promises the model lets the instance hand out
MaxCalls == 1

\* getCanvas(): the working canvas
getCanvas(cvs) == Returned(cvs)

GetCanvas ==
    /\ Constructed
    /\ returned' = getCanvas(canvas)
    /\ UNCHANGED << scanner, options, domVars, devicePixelRatio, loading, layoutVars,
                    corners, overlayDrawn, move, selectedCornerIndex, promises >>

\* what toBlob hands to its callback: the encoding of the canvas it was
\* called on, or null; and the file getFile() makes of a blob
Blob(cvs) == [kind |-> "blob", of |-> cvs]
Null == [kind |-> "null"]
File(blob, name) == [kind |-> "file", name |-> name, of |-> blob.of]
Resolved(v) == [kind |-> "resolved", value |-> v]
Rejected(e) == [kind |-> "rejected", error |-> e]

\* the executor of getBlob / getFile: an exception in it rejects the promise;
\* otherwise toBlob was called on croppedCanvas, which the encoder holds
\* until it calls back
executor(form, croppedCanvas) ==
    IF croppedCanvas.kind = "threw"
    THEN [ form |-> form, state |-> "rejected", with |-> croppedCanvas.error,
           encoding |-> FALSE, settlements |-> 1, croppedCanvas |-> Void ]
    ELSE [ form |-> form, state |-> "pending", with |-> "",
           encoding |-> TRUE, settlements |-> 0, croppedCanvas |-> croppedCanvas ]

\* a settlement of promise p: the first one decides, every one is counted
Settle(p, state, with) ==
    IF p.state = "pending"
    THEN [ p EXCEPT !.state = state, !.with = with, !.settlements = @ + 1 ]
    ELSE [ p EXCEPT !.settlements = @ + 1 ]

\* the promise once the encoder has called back and let go of the canvas
Encoded(p) == [p EXCEPT !.encoding = FALSE, !.croppedCanvas = Void]

\* a callback that returns on a missing blob
toBlobCallbackIgnoresNull(p, blob) ==
    IF blob # Null
    THEN [ promise |-> Settle(Encoded(p), "resolved",
                              IF p.form = "getBlob" THEN "blob" ELSE "cropped-image.png"),
           settles |-> Resolved(IF p.form = "getBlob" THEN blob
                                ELSE File(blob, "cropped-image.png")) ]
    ELSE [ promise |-> Encoded(p), settles |-> Void ]

\* a callback that delivers the transform of the box as it is when the
\* encoder calls back
toBlobCallbackTransformsLate(p, blob) ==
    IF blob # Null
    THEN [ promise |-> Settle(Encoded(p), "resolved",
                              IF p.form = "getBlob" THEN "blob" ELSE "cropped-image.png"),
           settles |-> Resolved(Blob(TransformArguments(corners, canvas,
                                         CornerRadius(options), devicePixelRatio))) ]
    ELSE [ promise |-> Settle(Encoded(p), "rejected",
                              IF p.form = "getBlob" THEN "Error getting blob."
                              ELSE "Error getting file."),
           settles |-> Rejected(IF p.form = "getBlob" THEN "Error getting blob."
                                ELSE "Error getting file.") ]

\* the callback given to toBlob, called with a blob or with null: the
\* promise after it and what it called resolve or reject with
toBlobCallback(p, blob) ==
    IF blob # Null
    THEN [ promise |-> Settle(Encoded(p), "resolved",
                              IF p.form = "getBlob" THEN "blob" ELSE "cropped-image.png"),
           settles |-> Resolved(IF p.form = "getBlob" THEN blob
                                ELSE File(blob, "cropped-image.png")) ]
    ELSE [ promise |-> Settle(Encoded(p), "rejected",
                              IF p.form = "getBlob" THEN "Error getting blob."
                              ELSE "Error getting file."),
           settles |-> Rejected(IF p.form = "getBlob" THEN "Error getting blob."
                                ELSE "Error getting file.") ]

\* getBlob() / getFile(): the executor runs inside the call
Deferred(form) ==
    /\ Constructed
    /\ Len(promises) < MaxCalls
    /\ \E engine \in EngineOutcomes(corners, canvas, CornerRadius(options), devicePixelRatio) :
         promises' = Append(promises,
             executor(form, applyPerspectiveTransform(corners, canvas, CornerRadius(options),
                                                      devicePixelRatio, engine)))
    /\ returned' = Void
    /\ UNCHANGED << scanner, options, domVars, devicePixelRatio, loading, layoutVars,
                    corners, overlayDrawn, move, selectedCornerIndex >>

GetBlob == Deferred("getBlob")
GetFile == Deferred("getFile")

\* the encoder calls the callback of promise i, once
ToBlobCallback(i) ==
    /\ i <= Len(promises)
    /\ promises[i].encoding
    /\ \E blob \in {Blob(promises[i].croppedCanvas.value), Null} :
         LET r == toBlobCallback(promises[i], blob)
         IN  /\ promises' = [promises EXCEPT ![i] = r.promise]
             /\ returned' = r.settles
    /\ UNCHANGED << scanner, options, domVars, devicePixelRatio, loading, layoutVars,
                    corners, overlayDrawn, move, selectedCornerIndex >>

Next ==
    \/ \E o \in ScannerOptions : Construct(o)
    \/ \E im \in Images : loadImg(im)
    \/ ImgOnload
    \/ ImgOnerror
    \/ \E p \in PointerPositions : PointerDown(p.x, p.y)
    \/ \E p \in PointerPositions : PointerMove(p.x, p.y)
    \/ PointerUp

Spec == Init /\ [][Next]_vars

(***************************************************************************)
(* The layout resolver on its own: an instance constructed with one of     *)
(* width / height (and the permitted maximum of the other), with both or   *)
(* with neither, loading images of several natural sizes.                  *)
(***************************************************************************)
LayoutSizes == { 100 * k : k \in 1..MaxLayoutScale }
LayoutMaxima == { Undefined, 150 }
LayoutOptions ==
    { Options(w, Undefined, Undefined, mh, Undefined, Undefined, <<>>, FALSE, FALSE) :
        w \in LayoutSizes, mh \in LayoutMaxima }
    \cup
    { Options(Undefined, h, mw, Undefined, Undefined, Undefined, <<>>, FALSE, FALSE) :
        h \in LayoutSizes, mw \in LayoutMaxima }
    \cup
    { Options(w, 100, Undefined, Undefined, Undefined, Undefined, <<>>, FALSE, FALSE) :
        w \in LayoutSizes }
    \cup
    { OptDefault }
LayoutImages == { Image(800, 600), Image(600, 800), Image(100, 100), Image(97, 97) }

InitLayout ==
    /\ options \in LayoutOptions
    /\ LET c == Constructor(options, << "sibling" >>)
       IN  /\ scanner = IF c.threw THEN "failed" ELSE "live"
           /\ elements = c.elements
           /\ listeners = c.listeners
           /\ parentChildren = c.children
    /\ devicePixelRatio \in DevicePixelRatios
    /\ loading = << >>
    /\ img = [naturalWidth |-> 0, naturalHeight |-> 0]
    /\ canvas = NewCanvas
    /\ canvasStyle = [width |-> 0, height |-> 0]
    /\ overlayCanvas = NewCanvas
    /\ canvasBorderPoints = << >>
    /\ corners = << >>
    /\ overlayDrawn = << >>
    /\ move = [active |-> FALSE, prevTouch |-> Pos(0, 0)]
    /\ selectedCornerIndex = -1
    /\ returned = Void
    /\ promises = << >>

NextLayout ==
    \/ \E im \in LayoutImages : loadImg(im)
    \/ ImgOnload

SpecLayout == InitLayout /\ [][NextLayout]_vars

\* the instance constructed with options o on a parent with one child
InitConstructed(o) ==
    /\ options = o
    /\ LET c == Constructor(o, << "sibling" >>)
       IN  /\ scanner = IF c.threw THEN "failed" ELSE "live"
           /\ elements = c.elements
           /\ listeners = c.listeners
           /\ parentChildren = c.children
    /\ devicePixelRatio \in DevicePixelRatios
    /\ loading = << >>
    /\ img = [naturalWidth |-> 0, naturalHeight |-> 0]
    /\ canvas = NewCanvas
    /\ canvasStyle = [width |-> 0, height |-> 0]
    /\ overlayCanvas = NewCanvas
    /\ canvasBorderPoints = << >>
    /\ corners = << >>
    /\ overlayDrawn = << >>
    /\ move = [active |-> FALSE, prevTouch |-> Pos(0, 0)]
    /\ selectedCornerIndex = -1
    /\ returned = Void
    /\ promises = << >>

(***************************************************************************)
(* The life of an instance on a page: construction, a load, the pointer    *)
(* on a handle and inside the box, teardown, and the page adding a child   *)
(* of its own to the parent.                                               *)
(***************************************************************************)
LifecycleOptions == { OptDefault, OptBothColors }
LifecycleImages == { Image(100, 100) }
LifecyclePositions == { Pos(12, 12), Pos(62, 62) }

NextLifecycle ==
    \/ \E o \in LifecycleOptions : Construct(o)
    \/ AppendSibling
    \/ \E im \in LifecycleImages : loadImg(im)
    \/ ImgOnload
    \/ \E p \in LifecyclePositions : PointerDown(p.x, p.y)
    \/ \E p \in LifecyclePositions : PointerMove(p.x, p.y)
    \/ PointerUp
    \/ Destroy

SpecLifecycle == Init /\ [][NextLifecycle]_vars

(***************************************************************************)
(* Cropping: an instance constructed with no option but parent, a          *)
(* 200 x 200 image, the pointer on the top-right and bottom-left handles   *)
(* and at the centre, and the three crop forms.                            *)
(***************************************************************************)
CropImages == { Image(200, 200) }
CropPositions == { Pos(212, 12), Pos(12, 212), Pos(112, 112) }

InitCrop == InitConstructed(OptDefault)

NextCrop ==
    \/ \E im \in CropImages : loadImg(im)
    \/ ImgOnload
    \/ \E p \in CropPositions : PointerDown(p.x, p.y)
    \/ \E p \in CropPositions : PointerMove(p.x, p.y)
    \/ PointerUp
    \/ Crop
    \/ GetBlob
    \/ GetFile
    \/ \E i \in 1..MaxCalls : ToBlobCallback(i)

SpecCrop == InitCrop /\ [][NextCrop]_vars


(***************************************************************************)
(* The interaction with crop() called at any time: every box the pointer   *)
(* can make of the three initial boxes is handed to the transform.         *)
(***************************************************************************)
NextSource ==
    \/ \E o \in ScannerOptions : Construct(o)
    \/ \E im \in Images : loadImg(im)
    \/ ImgOnload
    \/ ImgOnerror
    \/ \E p \in PointerPositions : PointerDown(p.x, p.y)
    \/ \E p \in PointerPositions : PointerMove(p.x, p.y)
    \/ PointerUp
    \/ Crop

SpecSource == Init /\ [][NextSource]_vars

(***************************************************************************)
(* What can come between a call of a crop form and the settlement of its   *)
(* promise: the pointer on the top-right handle, a reload, getCanvas() and *)
(* destroy(), whose removeEventListener calls leave the listeners on.      *)
(***************************************************************************)
SnapshotPositions == { Pos(212, 12), Pos(112, 112) }

NextSnapshot ==
    \/ \E im \in CropImages : loadImg(im)
    \/ ImgOnload
    \/ \E p \in SnapshotPositions : PointerDown(p.x, p.y)
    \/ \E p \in SnapshotPositions : PointerMove(p.x, p.y)
    \/ PointerUp
    \/ Crop
    \/ GetBlob
    \/ GetFile
    \/ GetCanvas
    \/ \E i \in 1..MaxCalls : ToBlobCallback(i)
    \/ Destroy

SpecSnapshot == InitCrop /\ [][NextSnapshot]_vars

\* the encoder calls every outstanding callback (HTMLCanvasElement.toBlob
\* queues a task that does)
SpecSnapshotFair == SpecSnapshot /\ \A i \in 1..MaxCalls : WF_vars(ToBlobCallback(i))

(***************************************************************************)
(* Vocabulary of the properties, written from the specification.           *)
(***************************************************************************)
Loaded == corners # << >>
MinW == MinCropBoxWidth(options)
MinH == MinCropBoxHeight(options)
\* the CanvasBoundary rectangle: the display size padded by the radius
BoundaryLow == CornerRadius(options)
BoundaryHighX == canvasStyle.width + CornerRadius(options)
BoundaryHighY == canvasStyle.height + CornerRadius(options)

\* the minimum-size check on a box [TL, TR, BR, BL]
BelowMinimum(box) ==
    \/ box[2].x - box[1].x < MinW
    \/ box[3].x - box[4].x < MinW
    \/ box[4].y - box[1].y < MinH
    \/ box[3].y - box[2].y < MinH

WithinBoundary(pt) ==
    /\ BoundaryLow <= pt.x /\ pt.x <= BoundaryHighX
    /\ BoundaryLow <= pt.y /\ pt.y <= BoundaryHighY
StrictlyInsideBoundary(pt) ==
    /\ BoundaryLow < pt.x /\ pt.x < BoundaryHighX
    /\ BoundaryLow < pt.y /\ pt.y < BoundaryHighY
OnBoundaryEdge(pt) == WithinBoundary(pt) /\ ~StrictlyInsideBoundary(pt)
ClampedToBoundary(pt) ==
    Pos(Max(BoundaryLow, Min(pt.x, BoundaryHighX)), Max(BoundaryLow, Min(pt.y, BoundaryHighY)))

\* the box with the selected corner replaced by the pointer position
WouldBeBox(p) == [ i \in 1..4 |-> IF i = selectedCornerIndex + 1 THEN p ELSE corners[i] ]
\* the box translated by the pointer's delta from the last recorded position
TranslatedBox(p) ==
    [ i \in 1..4 |-> Pos(corners[i].x + (p.x - move.prevTouch.x),
                         corners[i].y + (p.y - move.prevTouch.y)) ]

\* C1: a pointer-move with one corner selected and no box drag active, whose
\* would-be box fails the minimum-size check, leaves all four corners as they were
C1_RejectedCornerDragKeepsBox ==
    [][ (Loaded /\ ~move.active /\ selectedCornerIndex >= 0) =>
          \A p \in PointerPositions :
              (BelowMinimum(WouldBeBox(p)) /\ PointerMove(p.x, p.y)) => corners' = corners ]_vars

\* a corner is selected, no box drag is active, and the pointer position
\* (162, 162) has just been refused for the top-left corner
C1_Witness ==
    /\ Loaded /\ ~move.active /\ selectedCornerIndex = 0
    /\ options = OptCentred /\ canvasStyle.height = 200
    /\ corners[1] = Pos(12, 12)
    /\ BelowMinimum(WouldBeBox(Pos(162, 162)))

\* C2: a pointer-move during a whole-box drag moves every corner by the
\* pointer's delta when every translated corner is strictly inside the
\* boundary, and moves no corner when a translated and clamped corner lies
\* on a boundary edge
C2_BoxDragAllOrNothing ==
    [][ (Loaded /\ move.active) =>
          \A p \in PointerPositions :
              PointerMove(p.x, p.y) =>
                  /\ (\A i \in 1..4 : StrictlyInsideBoundary(TranslatedBox(p)[i]))
                        => corners' = TranslatedBox(p)
                  /\ (\E i \in 1..4 : OnBoundaryEdge(ClampedToBoundary(TranslatedBox(p)[i])))
                        => corners' = corners ]_vars

\* the centred box was moved by (25, 0), and the next move, by (25, 50) to
\* the boundary, was refused
C2_Witness ==
    /\ move.active /\ move.prevTouch = Pos(162, 162)
    /\ options = OptCentred
    /\ corners = << Pos(87, 62), Pos(187, 62), Pos(187, 162), Pos(87, 162) >>

\* C3: after a load the box meets the minimum-size thresholds, whatever the
\* configuration and the canvas size
C3_MinimumSizeAlways == Loaded => ~BelowMinimum(corners)

\* C4: with initialCorners absent or within 0 .. 100 percent, every corner
\* stays within the CanvasBoundary rectangle
PercentagesInRange(ic) ==
    \A i \in 1..Len(ic) : 0 <= ic[i].x /\ ic[i].x <= 100 /\ 0 <= ic[i].y /\ ic[i].y <= 100

C4_CornersWithinBoundary ==
    (Loaded /\ PercentagesInRange(options.initialCorners)) =>
        \A i \in 1..4 : WithinBoundary(corners[i])

\* the top-left corner of the centred box was dragged beyond the canvas and
\* stopped at the boundary corner
C4_Witness ==
    /\ Loaded /\ options = OptCentred /\ canvasStyle.height = 200
    /\ corners[1] = Pos(12, 12) /\ corners[3] = Pos(212, 212)

\* C5: a whole-box drag and a selected corner never hold together
C5_NeverBoxDragAndCorner == ~(move.active /\ selectedCornerIndex >= 0)

\* C6: a pointer-up clears the box-drag flag and the selected corner and
\* leaves the four corners as they were
C6_PointerUpClears ==
    [][ PointerUp =>
          /\ move'.active = FALSE
          /\ selectedCornerIndex' = -1
          /\ corners' = corners ]_vars

\* a box drag took place and was ended: only a pointer-up clears the flag
C6_Witness ==
    /\ Loaded /\ ~move.active /\ selectedCornerIndex = -1
    /\ move.prevTouch = Pos(137, 112)
    /\ corners = << Pos(87, 62), Pos(187, 62), Pos(187, 162), Pos(87, 162) >>

\* C7: when a load completes the box-drag flag is false and no corner is selected
C7_LoadResetsInteraction ==
    [][ ImgOnload => (move'.active = FALSE /\ selectedCornerIndex' = -1) ]_vars

\* C8: each load sets the boundary and the corners to the configured initial
\* layout for the new canvas size, whatever the corners were before
ConfiguredLayout(o, display) ==
    IF o.initialCorners = << >>
    THEN << Pos(CornerRadius(o), CornerRadius(o)),
            Pos(display.width + CornerRadius(o), CornerRadius(o)),
            Pos(display.width + CornerRadius(o), display.height + CornerRadius(o)),
            Pos(CornerRadius(o), display.height + CornerRadius(o)) >>
    ELSE [ i \in 1..4 |->
             Pos((o.initialCorners[i].x * display.width) \div 100 + CornerRadius(o),
                 (o.initialCorners[i].y * display.height) \div 100 + CornerRadius(o)) ]

C8_LoadRecomputesBox ==
    [][ ImgOnload =>
          /\ corners' = ConfiguredLayout(options, canvasStyle')
          /\ canvasBorderPoints' =
                << Pos(CornerRadius(options), CornerRadius(options)),
                   Pos(canvasStyle'.width + CornerRadius(options), CornerRadius(options)),
                   Pos(canvasStyle'.width + CornerRadius(options),
                       canvasStyle'.height + CornerRadius(options)),
                   Pos(CornerRadius(options), canvasStyle'.height + CornerRadius(options)) >>
          /\ (options.width = Undefined /\ options.height = Undefined) =>
                canvasStyle' = [width |-> loading[1].naturalWidth,
                                height |-> loading[1].naturalHeight]
          /\ (options.width # Undefined /\ options.height = Undefined) =>
                canvasStyle'.width = options.width ]_vars

\* a 100 x 50 image was loaded over a box drag that had moved the box of the
\* 200 x 200 canvas: the box is the centred box of the 200 x 100 canvas
C8_Witness ==
    /\ options = OptCentred /\ canvasStyle = [width |-> 200, height |-> 100]
    /\ move.active /\ move.prevTouch = Pos(137, 112)
    /\ corners = << Pos(62, 37), Pos(162, 37), Pos(162, 87), Pos(62, 87) >>

\* C9: a conflicting configuration makes the construction fail, and before
\* any element is created or appended or any listener registered
Conflicting(o) ==
    \/ (o.width # Undefined /\ o.maxWidth # Undefined)
    \/ (o.height # Undefined /\ o.maxHeight # Undefined)
    \/ (o.hasBackdropColor /\ o.hasCropBoxColor)

C9_ConflictFailsBeforeSideEffects ==
    (scanner # "none" /\ Conflicting(options)) =>
        /\ scanner = "failed"
        /\ elements = {}
        /\ listeners = {}
        /\ parentChildren = << "sibling" >>

\* the construction with both colours was refused
C9_Witness == scanner = "failed" /\ options = OptBothColors /\ elements = {}

\* C10: with exactly one of width / height set, the display size is the exact
\* floor of the proportional size, or the permitted maximum and the exact
\* floor of its proportional counterpart
ClaimedDisplaySize(o, nw, nh) ==
    IF o.width # Undefined
    THEN IF o.maxHeight # Undefined /\ (o.width * nh) \div nw > o.maxHeight
         THEN [width |-> (o.maxHeight * nw) \div nh, height |-> o.maxHeight]
         ELSE [width |-> o.width, height |-> (o.width * nh) \div nw]
    ELSE IF o.maxWidth # Undefined /\ (o.height * nw) \div nh > o.maxWidth
         THEN [width |-> o.maxWidth, height |-> (o.maxWidth * nh) \div nw]
         ELSE [width |-> (o.height * nw) \div nh, height |-> o.height]

C10_ExactProportionalSize ==
    (Loaded /\ ((options.width # Undefined) # (options.height # Undefined))) =>
        canvasStyle = ClaimedDisplaySize(options, img.naturalWidth, img.naturalHeight)

\* C11: with exactly one of width / height set, the display size (w, h) keeps
\* the aspect ratio of the image within rounding,
\* |w * naturalHeight - h * naturalWidth| < max(naturalWidth, naturalHeight),
\* and with a maximum given it exceeds neither the requested size nor the maximum
Abs(n) == IF n < 0 THEN 0 - n ELSE n

C11_AspectRatioWithinRounding ==
    (Loaded /\ ((options.width # Undefined) # (options.height # Undefined))) =>
        /\ Abs(canvasStyle.width * img.naturalHeight - canvasStyle.height * img.naturalWidth)
             < Max(img.naturalWidth, img.naturalHeight)
        /\ (options.maxHeight # Undefined) =>
             (canvasStyle.width <= options.width /\ canvasStyle.height <= options.maxHeight)
        /\ (options.maxWidth # Undefined) =>
             (canvasStyle.height <= options.height /\ canvasStyle.width <= options.maxWidth)

\* C12: after destroy() none of the six listeners the constructor registered
\* is still registered on the overlay canvas, so that no pointer event can
\* run a handler of the instance
C12_DestroyReleasesListeners ==
    scanner = "destroyed" =>
        /\ listeners = {}
        /\ \A type \in {"touchstart", "touchmove", "touchend",
                        "mousedown", "mousemove", "mouseup"} : ~Registered(type)

\* C13: the parent holds the subtree of the instance exactly once while the
\* instance is mounted and not at all before construction, after a failed
\* construction and after destroy(); destroy() leaves the parent with the
\* other children as they were; and no step but the page's own changes the
\* other children or their order
Subtree == "relativePostionedDiv"
Siblings == SelectSeq(parentChildren, LAMBDA c : c # Subtree)
SubtreeCount == Cardinality({ i \in 1..Len(parentChildren) : parentChildren[i] = Subtree })

C13_MountContract ==
    /\ [](SubtreeCount = IF scanner = "live" THEN 1 ELSE 0)
    /\ [][ Destroy => parentChildren' = Siblings ]_vars
    /\ [][ Siblings' # Siblings => AppendSibling ]_vars

\* the instance was destroyed on a parent that holds a child from before the
\* construction and a child the page added later
C13_Witness ==
    /\ scanner = "destroyed" /\ Loaded
    /\ parentChildren = << "sibling", "later sibling" >>

\* C14: every promise getBlob / getFile returned is settled exactly once: it
\* is pending exactly as long as nothing settled it, it is settled at most
\* once, a settled promise keeps its outcome, and it is eventually resolved
\* or rejected
Settled(i) ==
    /\ i <= Len(promises)
    /\ promises[i].state \in {"resolved", "rejected"}
    /\ promises[i].settlements = 1

C14_SettledExactlyOnce ==
    /\ [](\A i \in 1..Len(promises) :
            /\ promises[i].settlements <= 1
            /\ (promises[i].state = "pending") <=> (promises[i].settlements = 0))
    /\ [][ \A i \in 1..Len(promises) :
             promises[i].state # "pending" =>
                 (promises'[i].state = promises[i].state /\ promises'[i].with = promises[i].with)
         ]_vars
    /\ \A i \in 1..MaxCalls : [](i <= Len(promises) => <>Settled(i))

\* getFile() was called on the loaded instance, the encoder delivered no
\* blob and the promise was rejected
C14_Witness ==
    /\ Loaded /\ Len(promises) >= 1
    /\ promises[1].form = "getFile" /\ promises[1].state = "rejected"
    /\ promises[1].with = "Error getting file."
    /\ promises[1].encoding = FALSE /\ promises[1].settlements = 1

\* C15: a crop on an instance on which no load has completed fails, and with
\* an error the crop operation defines, not with the TypeError of reading the
\* corners that were never set: crop() throws it, getBlob() and getFile()
\* reject with it
DefinedCropError(e) == e # "TypeError"

C15_CropBeforeLoadDefinedError ==
    [][ ~Loaded =>
          /\ Crop => (returned'.kind = "threw" /\ DefinedCropError(returned'.error))
          /\ (GetBlob \/ GetFile) =>
                /\ promises'[Len(promises')].state = "rejected"
                /\ DefinedCropError(promises'[Len(promises')].with) ]_vars

\* the half of C15 the code keeps: before the first load no crop form ever
\* delivers an image
CropBeforeLoadFails ==
    [][ ~Loaded =>
          /\ Crop => returned'.kind = "threw"
          /\ (GetBlob \/ GetFile) => promises'[Len(promises')].state = "rejected" ]_vars

\* C16: with no initialCorners a load leaves the box on the four corners of
\* the CanvasBoundary, and a crop of that box hands the imaging engine the
\* source points (0, 0), (W, 0), (W, H), (0, H) and the target size W x H,
\* W x H the display size times the pixel density
FullCanvasBox(display, r) ==
    << Pos(r, r), Pos(display.width + r, r),
       Pos(display.width + r, display.height + r), Pos(r, display.height + r) >>

IdentityCorrespondence(W, H) ==
    [ srcTri |-> << Pos(0, 0), Pos(W, 0), Pos(W, H), Pos(0, H) >>,
      dsizeSquared |-> [width |-> W * W, height |-> H * H],
      dstTriSquared |-> << Pos(0, 0), Pos(W * W, 0), Pos(W * W, H * H), Pos(0, H * H) >> ]

Cross(a, b, c) == (b.x - a.x) * (c.y - a.y) - (c.x - a.x) * (b.y - a.y)
AllCollinear(box) ==
    /\ Cross(box[1], box[2], box[3]) = 0
    /\ Cross(box[1], box[2], box[4]) = 0
    /\ Cross(box[1], box[3], box[4]) = 0
    /\ Cross(box[2], box[3], box[4]) = 0
\* twice the area, by the shoelace formula
TwiceArea(box) ==
    (box[1].x * box[2].y - box[2].x * box[1].y) + (box[2].x * box[3].y - box[3].x * box[2].y)
      + (box[3].x * box[4].y - box[4].x * box[3].y) + (box[4].x * box[1].y - box[1].x * box[4].y)
Degenerate(box) == AllCollinear(box) \/ TwiceArea(box) = 0

\* C17: a crop requested while the box is degenerate fails: crop() throws,
\* and the promise of getBlob() / getFile() is rejected; no image comes of it
C17_DegenerateCropFails ==
    [][ (Loaded /\ Degenerate(corners)) =>
          /\ Crop => returned'.kind = "threw"
          /\ (GetBlob \/ GetFile) => promises'[Len(promises')].state = "rejected" ]_vars

\* C18: when the image cannot be decoded the failure reaches the caller of
\* the load operation: it is neither swallowed nor thrown inside a callback
\* where no caller is on the stack
C18_LoadFailureReachesCaller ==
    [][ ImgOnerror => returned'.kind \notin {"void", "uncaught"} ]_vars

\* C19: starting from the full-canvas box, with the default minimum sizes, no
\* sequence of corner drags and box drags makes the box degenerate
C19_NeverDegenerate ==
    ( /\ Loaded
      /\ options.initialCorners = << >>
      /\ MinW = DefaultMinCropBoxWidth /\ MinH = DefaultMinCropBoxHeight ) =>
        ~Degenerate(corners)

\* C20: a pointer-move with one corner selected and no box drag active clamps
\* the candidate to the CanvasBoundary first and commits it if and only if
\* the box with the selected corner replaced by the clamped candidate passes
\* the minimum-size check
C20_DecidedOnClampedCandidate ==
    [][ (Loaded /\ ~move.active /\ selectedCornerIndex >= 0) =>
          \A p \in PointerPositions :
              PointerMove(p.x, p.y) =>
                  corners' = IF BelowMinimum(WouldBeBox(ClampedToBoundary(p)))
                             THEN corners
                             ELSE WouldBeBox(ClampedToBoundary(p)) ]_vars

\* where the code agrees with C20: from a box that lies within the
\* CanvasBoundary and meets the minimum sizes, deciding on the pointer
\* position and deciding on the clamped candidate are the same
DecidedOnClampedCandidateFromValidBox ==
    [][ ( /\ Loaded /\ ~move.active /\ selectedCornerIndex >= 0
          /\ ~BelowMinimum(corners)
          /\ \A i \in 1..4 : WithinBoundary(corners[i]) ) =>
          \A p \in PointerPositions :
              PointerMove(p.x, p.y) =>
                  corners' = IF BelowMinimum(WouldBeBox(ClampedToBoundary(p)))
                             THEN corners
                             ELSE WouldBeBox(ClampedToBoundary(p)) ]_vars

\* a whole-box move to p is rejected: a translated and clamped corner lies on
\* an edge of the CanvasBoundary
BoxMoveRejected(p) == \E i \in 1..4 : OnBoundaryEdge(ClampedToBoundary(TranslatedBox(p)[i]))

\* C21 as stated: during a whole-box drag a rejected translation leaves the
\* last recorded pointer position as it was
C21_RejectedMoveKeepsPointer ==
    [][ (Loaded /\ move.active) =>
          \A p \in PointerPositions :
              (BoxMoveRejected(p) /\ PointerMove(p.x, p.y)) =>
                  move'.prevTouch = move.prevTouch ]_vars

\* C21 as amended: during a whole-box drag every pointer-move, committed or
\* rejected, records the pointer position, and the drag stays active, so
\* that the next delta is measured from the previous pointer position
C21_EveryMoveRecordsPointer ==
    [][ (Loaded /\ move.active) =>
          \A p \in PointerPositions :
              PointerMove(p.x, p.y) =>
                  /\ move'.prevTouch = p
                  /\ move'.active
                  /\ BoxMoveRejected(p) => corners' = corners ]_vars

\* the centred box was taken at its centre and the pointer then went to the
\* boundary corner (212, 212): the box stayed, the pointer position was recorded
C21_Witness ==
    /\ options = OptCentred /\ move.active /\ move.prevTouch = Pos(212, 212)
    /\ corners = << Pos(62, 62), Pos(162, 62), Pos(162, 162), Pos(62, 162) >>

\* the inset polygon: each corner moved 30 towards the interior of the box
InsetPolygon(box) ==
    << Pos(box[1].x + 30, box[1].y + 30), Pos(box[2].x - 30, box[2].y + 30),
       Pos(box[3].x - 30, box[3].y - 30), Pos(box[4].x + 30, box[4].y - 30) >>
InsideInset(p) == isPointInPath(InsetPolygon(corners), p)

\* C22: a pointer-down inside the inset polygon while no box drag is active
\* begins a box drag, records the pointer position and leaves the selected
\* corner as it was; any other pointer-down leaves the box-drag flag and the
\* recorded position as they were
C22_PointerDownOrder ==
    [][ Loaded =>
          \A p \in PointerPositions :
              PointerDown(p.x, p.y) =>
                  IF InsideInset(p) /\ ~move.active
                  THEN /\ move' = [active |-> TRUE, prevTouch |-> p]
                       /\ selectedCornerIndex' = selectedCornerIndex
                  ELSE move' = move ]_vars

\* the top-left handle of the full box of a 100 x 100 canvas was selected,
\* and a second pointer-down inside the box began a box drag over it
C22_Witness ==
    /\ Loaded /\ options = OptDefault /\ canvasStyle = [width |-> 100, height |-> 100]
    /\ move = [active |-> TRUE, prevTouch |-> Pos(62, 62)]
    /\ selectedCornerIndex = 0

\* the corners within cornerRadius (Euclidean) of p, by index from 0
CornersNear(p) ==
    { i \in 0..3 :
        (p.x - corners[i + 1].x) ^ 2 + (p.y - corners[i + 1].y) ^ 2 <= CornerRadius(options) ^ 2 }

\* C23: a pointer-down that does not begin a box drag sets the selected
\* corner to the lowest index within cornerRadius of the pointer, and to -1
\* when there is none, whatever was selected before
C23_LowestCornerInReach ==
    [][ Loaded =>
          \A p \in PointerPositions :
              (PointerDown(p.x, p.y) /\ ~(InsideInset(p) /\ ~move.active)) =>
                  /\ CornersNear(p) = {} => selectedCornerIndex' = -1
                  /\ CornersNear(p) # {} =>
                        /\ selectedCornerIndex' \in CornersNear(p)
                        /\ \A i \in CornersNear(p) : selectedCornerIndex' <= i ]_vars

\* the top-right handle (162, 62) of the centred box is selected
C23_Witness ==
    /\ Loaded /\ options = OptCentred /\ ~move.active
    /\ corners[2] = Pos(162, 62) /\ selectedCornerIndex = 1

\* p clamped componentwise to [r, overlay width - r] x [r, overlay height - r]
ClampedToOverlayInset(p) ==
    Pos(Max(CornerRadius(options), Min(p.x, overlayCanvas.width - CornerRadius(options))),
        Max(CornerRadius(options), Min(p.y, overlayCanvas.height - CornerRadius(options))))

\* C24: a corner drag that is committed (the box with the pointer position
\* in place of the selected corner passes the minimum-size check) moves the
\* selected corner to the clamped pointer position and changes no other
\* corner, nor the selected index, nor the box-drag state; and no corner
\* drag, committed or not, changes another corner than the selected one
C24_CommittedCornerDrag ==
    [][ (Loaded /\ ~move.active /\ selectedCornerIndex >= 0) =>
          \A p \in PointerPositions :
              PointerMove(p.x, p.y) =>
                  /\ ~BelowMinimum(WouldBeBox(p)) =>
                        corners'[selectedCornerIndex + 1] = ClampedToOverlayInset(p)
                  /\ \A i \in 1..4 : i # selectedCornerIndex + 1 => corners'[i] = corners[i]
                  /\ selectedCornerIndex' = selectedCornerIndex
                  /\ move' = move ]_vars

\* the top-left corner of the centred box was dragged to a pointer position
\* outside the canvas and stored on the boundary corner; the others stayed
C24_Witness ==
    /\ Loaded /\ options = OptCentred /\ ~move.active /\ selectedCornerIndex = 0
    /\ corners = << Pos(12, 12), Pos(162, 62), Pos(162, 162), Pos(62, 162) >>

\* C25: after a load and after every pointer event the corners the overlay
\* was last drawn with are the corners of the box
C25_OverlayNeverStale == Loaded => overlayDrawn = corners

\* the bottom-right corner of the centred box was dragged to the boundary
\* corner and the overlay shows it there
C25_Witness ==
    /\ Loaded /\ options = OptCentred
    /\ corners = << Pos(62, 62), Pos(162, 62), Pos(212, 212), Pos(62, 162) >>
    /\ overlayDrawn[3] = Pos(212, 212)

Idle == move.active = FALSE /\ selectedCornerIndex = -1
IsPointerDown == \E p \in PointerPositions : PointerDown(p.x, p.y)

\* C27: a pointer-move in the idle state changes neither the box nor the
\* interaction state; a pointer-up leads to the idle state, which only a
\* pointer-down leaves; and a pointer-down that hits neither the inset
\* polygon nor a handle starts no drag
C27_MovesActOnlyDuringDrag ==
    /\ [][ Idle =>
             \A p \in PointerPositions :
                 PointerMove(p.x, p.y) =>
                     /\ corners' = corners
                     /\ move' = move
                     /\ selectedCornerIndex' = selectedCornerIndex ]_vars
    /\ [][ PointerUp => Idle' ]_vars
    /\ [][ (Idle /\ ~IsPointerDown) => Idle' ]_vars
    /\ [][ Loaded =>
             \A p \in PointerPositions :
                 (~InsideInset(p) /\ CornersNear(p) = {} /\ PointerDown(p.x, p.y)) =>
                     /\ move' = move
                     /\ selectedCornerIndex' = -1 ]_vars

\* a corner drag took the bottom-right corner to (212, 212) and ended with a
\* pointer-up: the instance is idle with the dragged box
C27_Witness ==
    /\ Idle /\ Loaded /\ options = OptCentred
    /\ corners = << Pos(62, 62), Pos(162, 62), Pos(212, 212), Pos(62, 162) >>
    /\ returned = Void

\* the box lies within the CanvasBoundary and passes the minimum-size check
ValidBox ==
    /\ Loaded
    /\ \A i \in 1..4 : WithinBoundary(corners[i])
    /\ ~BelowMinimum(corners)

\* C28: a box that lies within the CanvasBoundary and passes the
\* minimum-size check still does both after any single pointer event, a
\* pointer-move of a corner drag or of a box drag, a pointer-down or a
\* pointer-up
C28_ValidBoxPreserved ==
    [][ ValidBox =>
          /\ \A p \in PointerPositions : PointerMove(p.x, p.y) => ValidBox'
          /\ IsPointerDown => ValidBox'
          /\ PointerUp => ValidBox' ]_vars

\* the top-left corner of the centred box was dragged to the pointer at
\* (-38, -38), outside the overlay, and stored clamped at (12, 12); then the
\* bottom-right corner was dragged to the boundary corner (212, 212)
C28_Witness ==
    /\ ValidBox /\ options = OptCentred /\ selectedCornerIndex = 2
    /\ corners = << Pos(12, 12), Pos(162, 62), Pos(212, 212), Pos(62, 162) >>

\* the offsets corner[i] - corner[j] of a box
Offsets(box) ==
    [ i \in 1..4 |-> [ j \in 1..4 |-> Pos(box[i].x - box[j].x, box[i].y - box[j].y) ] ]

\* C29: a pointer-move handled in box-drag mode leaves the pairwise offsets
\* between the four corners as they were, in every reachable state
C29_BoxDragKeepsOffsets ==
    [][ (Loaded /\ move.active) =>
          \A p \in PointerPositions :
              PointerMove(p.x, p.y) => Offsets(corners') = Offsets(corners) ]_vars

\* the centred box was taken at (112, 112) and moved by 25 to the right
C29_Witness ==
    /\ options = OptCentred /\ move.active /\ move.prevTouch = Pos(137, 112)
    /\ corners = << Pos(87, 62), Pos(187, 62), Pos(187, 162), Pos(87, 162) >>

\* C30: the canvas a deferred crop encodes is the transform of the box and
\* the canvas at the call; no step between the call and the encoder's
\* callback changes it, whether a pointer event, a reload or destroy(); the
\* promise delivers the encoding of that canvas; and none of crop(),
\* getBlob(), getFile() and getCanvas() changes the box or the interaction state
C30_DeferredCropIsSnapshot ==
    /\ [][ (Loaded /\ (GetBlob \/ GetFile)) =>
             LET p == promises'[Len(promises')]
             IN  p.state = "pending" =>
                     p.croppedCanvas =
                         Returned(TransformArguments(corners, canvas, CornerRadius(options),
                                                     devicePixelRatio)) ]_vars
    /\ [][ \A i \in 1..Len(promises) :
             (promises[i].encoding /\ promises'[i].encoding) =>
                 promises'[i].croppedCanvas = promises[i].croppedCanvas ]_vars
    /\ [][ \A i \in 1..Len(promises) :
             (promises[i].state = "pending" /\ promises'[i].state = "resolved") =>
                 /\ returned'.kind = "resolved"
                 /\ returned'.value.of = promises[i].croppedCanvas.value ]_vars
    /\ [][ (Crop \/ GetBlob \/ GetFile \/ GetCanvas) =>
             UNCHANGED << corners, move, selectedCornerIndex >> ]_vars

\* getBlob() was called on the full box of the 200 x 200 image; before the
\* encoder called back the top-right corner was dragged to the centre and the
\* instance destroyed: the promise delivered the full image
C30_Witness ==
    /\ returned = Resolved(Blob(IdentityCorrespondence(canvas.width, canvas.height)))
    /\ corners[2] = Pos(112, 112)
    /\ scanner = "destroyed"

\* initialCorners is absent or every percentage is within [0, 100]
InitialCornersWithin ==
    \A i \in 1..Len(options.initialCorners) :
        /\ 0 <= options.initialCorners[i].x /\ options.initialCorners[i].x <= 100
        /\ 0 <= options.initialCorners[i].y /\ options.initialCorners[i].y <= 100

Sign(n) == IF n > 0 THEN 1 ELSE IF n < 0 THEN -1 ELSE 0

=============================================================================
